---- MODULE Spec2Model ----
(***************************************************************************)
(* Model of the nostromo file-sharing server: the Express routers for      *)
(* files, devices and API keys, the DeviceManager, the EncryptionService   *)
(* and the server initialisation, over an SQLite ledger and an uploads     *)
(* directory.                                                              *)
(*                                                                         *)
(* Every request handler is an async function.  JavaScript runs each       *)
(* synchronous stretch of a handler to completion, and other handlers may  *)
(* run at every await.  A handler is therefore a chain of steps: an        *)
(* awaited SQL statement executes, and the code after the await runs up    *)
(* to the next await.  The code after an await is a step of its own when   *)
(* it reads or writes what other requests share (the uploads directory,    *)
(* the clock); when it only looks at the rows it was handed, it is part of *)
(* the step of the statement, because no other request can tell the        *)
(* difference.  Each request occupies one slot of reqs; pc names the step  *)
(* the request waits for.                                                  *)
(***************************************************************************)
EXTENDS Integers, Sequences, FiniteSets, TLC

(***************************************************************************)
(* Bounds of the model.                                                    *)
(***************************************************************************)
DayLen == 2         \* clock ticks per UTC calendar day
MaxCount == 2       \* downloads of one file started in one behaviour
MaxInflight == 2    \* request slots: requests in flight at the same time
MaxUploads == 2     \* uploads started in one behaviour
MaxKeys == 2        \* API key records ever created
MaxDevices == 3     \* device records ever created
HourLen == 1        \* clock ticks per hour

Slots == 1..MaxInflight

\* the clock stops ticking here: the second calendar day has begun
MaxTime == DayLen

(***************************************************************************)
(* Timestamps.  The clock counts ticks; a tick belongs to calendar day     *)
(* (t \div DayLen).  JavaScript compares Date objects numerically; SQLite  *)
(* compares the stored TEXT byte by byte.  A timestamp string is modelled  *)
(* as <<date, separator byte, time of day>>: toISOString() separates date  *)
(* and time with "T", SQLite's datetime('now') and CURRENT_TIMESTAMP with  *)
(* a space.                                                                *)
(***************************************************************************)
CharT == 84
CharSpace == 32

ToISOString(t) == <<t \div DayLen, CharT, t % DayLen>>

ParseDate(s) == s[1] * DayLen + s[3]

SqlDatetimeNow(t) == <<t \div DayLen, CharSpace, t % DayLen>>

RECURSIVE StrLess(_, _)
StrLess(a, b) ==
    IF b = <<>> THEN FALSE
    ELSE IF a = <<>> THEN TRUE
    ELSE IF Head(a) < Head(b) THEN TRUE
    ELSE IF Head(a) > Head(b) THEN FALSE
    ELSE StrLess(Tail(a), Tail(b))

\* expires_at column: <<>> is SQL NULL, otherwise the stored ISO string
NullTime == <<>>

\* `file.expires_at && new Date() > new Date(file.expires_at)`
JsExpiredNoCheck(expires_at, t) == FALSE

JsExpired(expires_at, t) ==
    expires_at # NullTime /\ t > ParseDate(expires_at)

\* `f.expires_at IS NULL OR f.expires_at > datetime("now")`
SqlNotExpired(expires_at, t) ==
    expires_at = NullTime \/ StrLess(SqlDatetimeNow(t), expires_at)

\* `expires_at IS NOT NULL AND expires_at < CURRENT_TIMESTAMP`
SqlExpired(expires_at, t) ==
    expires_at # NullTime /\ StrLess(expires_at, SqlDatetimeNow(t))

(***************************************************************************)
(* EncryptionService.  Buffers are sequences of bytes.  A ciphertext blob  *)
(* is iv ++ tag ++ encrypted, as encryptFile concatenates it.  The legacy  *)
(* createCipher(algorithm, password, options) derives key and IV from the  *)
(* password alone, so the random iv is stored in the blob but never        *)
(* reaches the cipher.  The cipher is a byte-wise keystream addition and   *)
(* the tag a checksum of key and ciphertext: enough structure for a wrong  *)
(* key, a wrong slice or a truncated blob to fail the tag check.           *)
(***************************************************************************)
Plaintexts == {<<104>>, <<104, 105>>}

NoKeyMaterial == 0

\* this.ivLength and this.tagLength
ivLength == 16
tagLength == 16

Byte == 256

\* the content of a file multer stored
PlainContent(p) == p

RECURSIVE SumBytes(_)
SumBytes(b) == IF b = <<>> THEN 0 ELSE Head(b) + SumBytes(Tail(b))

\* the keystream byte of the cipher at position i
KeyStream(key, i) == (key * 31 + i * 7) % Byte

\* cipher.getAuthTag() / the tag decipher.final() compares against
AuthTag(key, encrypted) ==
    [j \in 1..tagLength |->
       (key + j + Len(encrypted) + SumBytes(encrypted)) % Byte]

\* crypto.randomBytes(this.ivLength)
RandomIv == [j \in 1..ivLength |-> 0]

encryptFile(buffer, key) ==
    LET encrypted == [i \in 1..Len(buffer) |->
                        (buffer[i] + KeyStream(key, i)) % Byte]
    IN  RandomIv \o AuthTag(key, encrypted) \o encrypted

\* slices at the wrong offsets: the tag is taken from the start of the blob
decryptFileNoIvOffset(blob, key) ==
    IF Len(blob) < ivLength + tagLength
    THEN [ok |-> FALSE, data |-> <<>>]
    ELSE LET tag == SubSeq(blob, 1, tagLength)
             encrypted == SubSeq(blob, ivLength + tagLength + 1, Len(blob))
         IN  IF key # NoKeyMaterial /\ tag = AuthTag(key, encrypted)
             THEN [ok |-> TRUE,
                   data |-> [i \in 1..Len(encrypted) |->
                               (encrypted[i] + Byte - KeyStream(key, i)) % Byte]]
             ELSE [ok |-> FALSE, data |-> <<>>]

\* ok = FALSE is the thrown `Decryption failed`
decryptFile(blob, key) ==
    IF Len(blob) < ivLength + tagLength
    THEN [ok |-> FALSE, data |-> <<>>]
    ELSE LET tag == SubSeq(blob, ivLength + 1, ivLength + tagLength)
             encrypted == SubSeq(blob, ivLength + tagLength + 1, Len(blob))
         IN  IF key # NoKeyMaterial /\ tag = AuthTag(key, encrypted)
             THEN [ok |-> TRUE,
                   data |-> [i \in 1..Len(encrypted) |->
                               (encrypted[i] + Byte - KeyStream(key, i)) % Byte]]
             ELSE [ok |-> FALSE, data |-> <<>>]

\* generateKey(): 32 fresh random bytes; the u-th upload draws the u-th key
generateKey(u) == 1000 + u

\* hashApiKey(): SHA-256, modelled as an injective map into another range
hashApiKey(secret) == 7000 + secret

(***************************************************************************)
(* The uploads directory: a function from file names to contents.  multer  *)
(* stores upload u under a fresh name; the ciphertext gets that name plus  *)
(* ".enc".                                                                 *)
(***************************************************************************)
StagedName(u) == [id |-> u, enc |-> FALSE]

EncName(n) == [n EXCEPT !.enc = TRUE]

existsSync(d, n) == n \in DOMAIN d

writeFileSync(d, n, c) ==
    [x \in DOMAIN d \cup {n} |-> IF x = n THEN c ELSE d[x]]

unlinkSync(d, n) == [x \in DOMAIN d \ {n} |-> d[x]]

(***************************************************************************)
(* HTTP status codes                                                       *)
(***************************************************************************)
Pending == 0
Ok == 200
BadRequest == 400
Unauthenticated == 401
Forbidden == 403
NotFound == 404
Expired == 410
ServerError == 500

VARIABLES
    now,            \* the clock, in ticks
    devices,        \* devices table: id -> row
    files,          \* files table: sequence of rows, a row's id is its index
    apiKeys,        \* api_keys table: sequence of rows, a row's id is its index
    disk,           \* uploads directory
    reqs,           \* request slots
    uploads,        \* number of uploads started (multer file names drawn)
    secrets,        \* number of API key secrets generated
    deviceUuids,    \* number of device uuids drawn
    served,         \* per file id: number of downloads answered with the bytes
    revokedAtRestart, \* ids of the key records that were inactive at a start-up
    uploadedBytes   \* per file id: the bytes the client sent

vars == <<now, devices, files, apiKeys, disk, reqs, uploads, secrets,
          deviceUuids, served, revokedAtRestart, uploadedBytes>>

tables == <<devices, files, apiKeys>>

(***************************************************************************)
(* Process environment and node identity                                   *)
(***************************************************************************)
\* process.env.API_KEY: the configured initial key is the first secret
EnvApiKey == 1

\* process.env.MAX_FILE_AGE is not set ("" is the unset variable)
EnvMaxFileAge == ""

\* DeviceManager.deviceId: the uuid drawn when the identity file is created
SelfDeviceId == 1

SelfDeviceName == "host"

LocalIP == "10.0.0.1"

\* generateFingerprint(): first 16 hex characters of SHA-256(publicKey)
generateFingerprint(publicKey) == <<"fp", publicKey>>

SelfPublicKey == "pk-self"

\* deviceManager.trustDevice / untrustDevice / deleteDevice and the permission
\* strings written by the server
PermsInitial == <<"read", "write">>
PermsBootstrap == <<"read", "write", "admin">>

\* `permissions.split(',').includes(permission)`
Includes(perms, p) == \E i \in 1..Len(perms) : perms[i] = p

(***************************************************************************)
(* Request slots                                                           *)
(***************************************************************************)
NoKey == 0

NoUpload == [u |-> 0, plain |-> <<>>, deviceId |-> 0, deviceName |-> "",
             exp |-> "", source |-> 0, key |-> NoKeyMaterial,
             expires_at |-> NullTime]

\* sent: the values of table columns and request locals that the answer
\* carries to the client (JSON fields, headers and bytes)
IdleReq == [op |-> "none", pc |-> "idle", key |-> NoKey, arg |-> 0,
            perms |-> <<>>, row |-> <<>>, resp |-> Pending, body |-> <<>>,
            up |-> NoUpload, sent |-> {}]

\* A request that has been answered leaves its slot in the very next step
\* (Close), before anything else happens: the answer is in the state once.
NoneDone == \A s \in Slots : reqs[s].pc # "done"

\* a new request takes the lowest idle slot
Free(s) ==
    /\ NoneDone
    /\ reqs[s].pc = "idle"
    /\ \A q \in Slots : q < s => reqs[q].pc # "idle"

NewReq(op, pc, key, arg) ==
    [IdleReq EXCEPT !.op = op, !.pc = pc, !.key = key, !.arg = arg]

Range(seq) == {seq[i] : i \in DOMAIN seq}

\* The fields the list and info responses copy from a files row (id, size,
\* deviceId, uploadTime, expiresAt, downloadCount; the names and the mime type are
\* strings of the request and of the devices table).
FileResponseAllColumns(id, row) ==
    {id, row.size, row.device_id, row.download_count, row.encryption_key}
       \cup Range(row.expires_at) \cup Range(row.upload_time)

FileResponse(id, row) ==
    {id, row.size, row.device_id, row.download_count}
       \cup Range(row.expires_at) \cup Range(row.upload_time)

\* the fields the key listing copies from an api_keys row
KeyResponse(id, row) == {id, row.device_id} \cup Range(row.expires_at)

\* What an answer carries.  Every error answer is `{ error: '<fixed text>' }`;
\* a 200 answer is built per route from the rows and locals of the handler.
ResponseValues(r, code, body) ==
    IF code # Ok THEN {}
    ELSE CASE r.op = "list" ->
                UNION {FileResponse(f, files[f]) : f \in Range(body)}
           [] r.op = "info" -> FileResponse(r.arg, r.row[1])
           [] r.op = "download" -> Range(body) \cup {Len(body)}
           [] r.op = "upload" ->
                {r.arg, Len(r.up.plain), r.up.source}
                   \cup Range(r.up.expires_at)
           [] r.op = "listApiKeys" ->
                UNION {KeyResponse(k, apiKeys[k]) : k \in Range(body)}
           [] r.op = "validate" -> Range(body) \cup {r.row[1].device_id}
           [] OTHER -> Range(body)

\* res.status(code).json(...) / res.send(...): the request is over
Respond(r, code, body) ==
    [r EXCEPT !.pc = "done", !.resp = code, !.body = body,
              !.sent = ResponseValues(r, code, body)]

FileIds == 1..Len(files)

\* rows of a SELECT on files by id with is_deleted = 0: <<>> or <<row>>
SelectActiveFile(f) ==
    IF f \in FileIds /\ ~files[f].is_deleted THEN <<files[f]>> ELSE <<>>

(***************************************************************************)
(* Initial state: initializeServer has run on an empty data directory.     *)
(***************************************************************************)
SelfDeviceRow ==
    [name |-> SelfDeviceName, ip_address |-> LocalIP,
     fingerprint |-> generateFingerprint(SelfPublicKey),
     is_trusted |-> TRUE, last_seen |-> 0]

InitialKeyRow ==
    [key_hash |-> hashApiKey(EnvApiKey), device_id |-> SelfDeviceId,
     permissions |-> PermsInitial, expires_at |-> NullTime,
     is_active |-> TRUE]

Init ==
    /\ now = 0
    /\ devices = (SelfDeviceId :> SelfDeviceRow)
    /\ files = <<>>
    /\ apiKeys = <<InitialKeyRow>>
    /\ disk = <<>>
    /\ reqs = [s \in Slots |-> IdleReq]
    /\ uploads = 0
    /\ secrets = 1
    /\ deviceUuids = 1
    /\ served = <<>>
    /\ revokedAtRestart = {}
    /\ uploadedBytes = <<>>

(***************************************************************************)
(* The clock                                                               *)
(***************************************************************************)
Tick ==
    /\ NoneDone
    /\ now < MaxTime
    /\ now' = now + 1
    /\ UNCHANGED <<devices, files, apiKeys, disk, reqs, uploads, secrets, deviceUuids, served, revokedAtRestart, uploadedBytes>>

\* the answered request leaves its slot
Close(s) ==
    /\ reqs[s].pc = "done"
    /\ reqs' = [reqs EXCEPT ![s] = IdleReq]
    /\ UNCHANGED <<now, devices, files, apiKeys, disk, uploads, secrets, deviceUuids, served, revokedAtRestart, uploadedBytes>>

(***************************************************************************)
(* GET /api/files: list (public)                                           *)
(***************************************************************************)
\* the rows the list query selects at clock t
ListVisible(row, t) == ~row.is_deleted /\ SqlNotExpired(row.expires_at, t)

ListedIds(t) == {f \in FileIds : ListVisible(files[f], t)}

RECURSIVE SetToSeq(_)
SetToSeq(S) ==
    IF S = {} THEN <<>>
    ELSE LET m == CHOOSE x \in S : \A y \in S : x >= y
         IN  Append(SetToSeq(S \ {m}), m)

\* the SELECT executes and the response is built from its rows
ListFiles(s) ==
    /\ Free(s)
    /\ reqs' = [reqs EXCEPT ![s] =
                  Respond(NewReq("list", "idle", NoKey, 0), Ok,
                          SetToSeq(ListedIds(now)))]
    /\ UNCHANGED <<now, devices, files, apiKeys, disk, uploads, secrets, deviceUuids, served, revokedAtRestart, uploadedBytes>>

(***************************************************************************)
(* GET /api/files/:fileId/info (public)                                    *)
(***************************************************************************)
\* the request arrives and its metadata query executes
InfoGet(s, f) ==
    /\ Free(s)
    /\ reqs' = [reqs EXCEPT ![s] =
                  [NewReq("info", "info_got", NoKey, f) EXCEPT
                     !.row = SelectActiveFile(f)]]
    /\ UNCHANGED <<now, devices, files, apiKeys, disk, uploads, secrets, deviceUuids, served, revokedAtRestart, uploadedBytes>>

\* status of the info response for the fetched rows at clock t
InfoOutcome(row, t) ==
    IF row = <<>> THEN NotFound
    ELSE IF JsExpired(row[1].expires_at, t) THEN Expired
    ELSE Ok

\* the response carries the public fields of the row read; body keeps the
\* download count among them
InfoRespond(s) ==
    /\ NoneDone
    /\ reqs[s].pc = "info_got"
    /\ LET r == reqs[s]
           code == InfoOutcome(r.row, now)
       IN  reqs' = [reqs EXCEPT ![s] =
                      Respond(r, code,
                              IF code = Ok THEN <<r.row[1].download_count>>
                              ELSE <<>>)]
    /\ UNCHANGED <<now, devices, files, apiKeys, disk, uploads, secrets, deviceUuids, served, revokedAtRestart, uploadedBytes>>

(***************************************************************************)
(* GET /api/files/:fileId: download (public)                               *)
(***************************************************************************)
\* downloads of file f that are under way
Downloading(f) ==
    {q \in Slots : reqs[q].op = "download" /\ reqs[q].arg = f
                      /\ reqs[q].pc # "idle"}

\* the request arrives and its metadata query executes
DownloadGet(s, f) ==
    /\ Free(s)
    /\ f \in FileIds =>
         files[f].download_count + Cardinality(Downloading(f)) < MaxCount
    /\ reqs' = [reqs EXCEPT ![s] =
                  [NewReq("download", "dl_got", NoKey, f) EXCEPT
                     !.row = SelectActiveFile(f)]]
    /\ UNCHANGED <<now, devices, files, apiKeys, disk, uploads, secrets, deviceUuids, served, revokedAtRestart, uploadedBytes>>

\* The synchronous stretch after the metadata query: expiry check,
\* existsSync, readFileSync, decryptFile.  The result is the status to
\* answer with, or Pending when the download goes on to the counter UPDATE.
DownloadOutcomeNoExists(row, d, t) ==
    IF row = <<>> THEN [code |-> NotFound, data |-> <<>>]
    ELSE IF JsExpired(row[1].expires_at, t) THEN [code |-> Expired, data |-> <<>>]
    ELSE IF ~existsSync(d, row[1].filename)
         THEN [code |-> ServerError, data |-> <<>>]
    ELSE LET dec == decryptFile(d[row[1].filename], row[1].encryption_key)
         IN  IF dec.ok THEN [code |-> Pending, data |-> dec.data]
             ELSE [code |-> ServerError, data |-> <<>>]

DownloadOutcome(row, d, t) ==
    IF row = <<>> THEN [code |-> NotFound, data |-> <<>>]
    ELSE IF JsExpired(row[1].expires_at, t) THEN [code |-> Expired, data |-> <<>>]
    ELSE IF ~existsSync(d, row[1].filename)
         THEN [code |-> NotFound, data |-> <<>>]
    ELSE LET dec == decryptFile(d[row[1].filename], row[1].encryption_key)
         IN  IF dec.ok THEN [code |-> Pending, data |-> dec.data]
             ELSE [code |-> ServerError, data |-> <<>>]

DownloadRead(s) ==
    /\ NoneDone
    /\ reqs[s].pc = "dl_got"
    /\ LET r == reqs[s]
           out == DownloadOutcome(r.row, disk, now)
       IN  reqs' = [reqs EXCEPT ![s] =
                      IF out.code = Pending
                      THEN [r EXCEPT !.pc = "dl_upd", !.body = out.data]
                      ELSE Respond(r, out.code, <<>>)]
    /\ UNCHANGED <<now, devices, files, apiKeys, disk, uploads, secrets, deviceUuids, served, revokedAtRestart, uploadedBytes>>

\* `UPDATE files SET download_count = download_count + 1 WHERE id = ?`
IncrementFromRow(fs, f, row) ==
    [fs EXCEPT ![f].download_count = row.download_count + 1]

IncrementDownloadCount(fs, f, row) ==
    [fs EXCEPT ![f].download_count = @ + 1]

\* the UPDATE executes and res.send(decryptedBuffer) answers with the bytes;
\* or the engine reports an error, db.run rejects and the inner catch answers
DownloadCount(s, dbOk) ==
    /\ NoneDone
    /\ reqs[s].pc = "dl_upd"
    /\ IF dbOk
         THEN /\ files' = IncrementDownloadCount(files, reqs[s].arg, reqs[s].row[1])
              /\ served' = [served EXCEPT ![reqs[s].arg] = @ + 1]
              /\ reqs' = [reqs EXCEPT ![s] = Respond(reqs[s], Ok, reqs[s].body)]
         ELSE /\ UNCHANGED <<files, served>>
              /\ reqs' = [reqs EXCEPT ![s] = Respond(reqs[s], ServerError, <<>>)]
    /\ UNCHANGED <<now, devices, apiKeys, disk, uploads, secrets, deviceUuids, revokedAtRestart, uploadedBytes>>

(***************************************************************************)
(* authenticateRequest and requirePermission, the middleware in front of   *)
(* every gated route.                                                      *)
(***************************************************************************)
\* the permission each gated route is registered with
RequiredPermission(op) ==
    IF op \in {"listDevices", "getDevice"} THEN "read" ELSE "write"

\* `SELECT * FROM api_keys WHERE key_hash = ? AND is_active = 1`: db.get
\* returns the first matching row
SelectActiveKey(keys, hash) ==
    LET hits == {k \in 1..Len(keys) :
                    keys[k].key_hash = hash /\ keys[k].is_active}
    IN  IF hits = {} THEN <<>>
        ELSE <<keys[CHOOSE k \in hits : \A j \in hits : k <= j]>>

\* `keyRecord.expires_at && new Date() > new Date(keyRecord.expires_at)`;
\* the column holds <<>> for NULL or <<t>> for the bound Date
KeyExpired(expires_at, t) == expires_at # <<>> /\ t > expires_at[1]

\* the synchronous start of the handler behind the gate: the pc it awaits
\* first, or done with 400 for deleting the own device
EnterHandlerNoSelfCheck(r) ==
    CASE r.op = "deleteFile" -> [r EXCEPT !.pc = "df_get"]
      [] r.op = "cleanup" -> [r EXCEPT !.pc = "cl_all"]
      [] r.op = "trustDevice" -> [r EXCEPT !.pc = "trust_run"]
      [] r.op = "untrustDevice" -> [r EXCEPT !.pc = "untrust_run"]
      [] r.op = "deleteDevice" -> [r EXCEPT !.pc = "dd_run"]
      [] r.op = "generateApiKey" -> [r EXCEPT !.pc = "gk_ins"]
      [] OTHER -> Respond(r, ServerError, <<>>)

EnterHandler(r) ==
    CASE r.op = "deleteFile" -> [r EXCEPT !.pc = "df_get"]
      [] r.op = "cleanup" -> [r EXCEPT !.pc = "cl_all"]
      [] r.op = "trustDevice" -> [r EXCEPT !.pc = "trust_run"]
      [] r.op = "untrustDevice" -> [r EXCEPT !.pc = "untrust_run"]
      [] r.op = "deleteDevice" ->
            IF r.arg = SelfDeviceId THEN Respond(r, BadRequest, <<>>)
            ELSE [r EXCEPT !.pc = "dd_run"]
      [] r.op = "generateApiKey" -> [r EXCEPT !.pc = "gk_ins"]
      [] OTHER -> Respond(r, ServerError, <<>>)

\* a request arrives at a gated route: without a key it is answered at once,
\* otherwise the key lookup executes
GatedRequest(s, op, key, arg) ==
    /\ Free(s)
    /\ reqs' = [reqs EXCEPT ![s] =
                  IF key = NoKey
                  THEN Respond(NewReq(op, "idle", key, arg), Unauthenticated, <<>>)
                  ELSE [NewReq(op, "auth_got", key, arg) EXCEPT
                          !.row = SelectActiveKey(apiKeys, hashApiKey(key))]]
    /\ UNCHANGED <<now, devices, files, apiKeys, disk, uploads, secrets, deviceUuids, served, revokedAtRestart, uploadedBytes>>

\* the rest of authenticateRequest, then requirePermission, then the handler
\* up to its first await
GateOutcome(r, t) ==
    IF r.row = <<>> THEN Respond(r, Unauthenticated, <<>>)
    ELSE IF KeyExpired(r.row[1].expires_at, t)
         THEN Respond(r, Unauthenticated, <<>>)
    ELSE IF ~Includes(r.row[1].permissions, RequiredPermission(r.op))
         THEN Respond(r, Forbidden, <<>>)
    ELSE EnterHandler([r EXCEPT !.perms = r.row[1].permissions, !.row = <<>>])

AuthCheck(s) ==
    /\ NoneDone
    /\ reqs[s].pc = "auth_got"
    /\ reqs' = [reqs EXCEPT ![s] = GateOutcome(reqs[s], now)]
    /\ UNCHANGED <<now, devices, files, apiKeys, disk, uploads, secrets, deviceUuids, served, revokedAtRestart, uploadedBytes>>

(***************************************************************************)
(* DELETE /api/files/:fileId (gated, write)                                *)
(***************************************************************************)
\* the lookup executes; without a row the answer is 404, with one the
\* tombstone UPDATE is issued
DeleteFileGet(s) ==
    /\ NoneDone
    /\ reqs[s].pc = "df_get"
    /\ LET row == SelectActiveFile(reqs[s].arg)
       IN  reqs' = [reqs EXCEPT ![s] =
                      IF row = <<>> THEN Respond(reqs[s], NotFound, <<>>)
                      ELSE [reqs[s] EXCEPT !.pc = "df_upd", !.row = row]]
    /\ UNCHANGED <<now, devices, files, apiKeys, disk, uploads, secrets, deviceUuids, served, revokedAtRestart, uploadedBytes>>

\* `if (fs.existsSync(filePath)) fs.unlinkSync(filePath)`
RemoveBlob(d, n) == IF existsSync(d, n) THEN unlinkSync(d, n) ELSE d

\* `UPDATE files SET is_deleted = 1 WHERE id = ?`
ToggleDeleted(fs, f) == [fs EXCEPT ![f].is_deleted = ~@]

MarkDeleted(fs, f) == [fs EXCEPT ![f].is_deleted = TRUE]

DeleteFileUnlinkFirst(s) ==
    /\ NoneDone
    /\ reqs[s].pc = "df_upd"
    /\ disk' = RemoveBlob(disk, reqs[s].row[1].filename)
    /\ reqs' = [reqs EXCEPT ![s].pc = "df_marked"]
    /\ UNCHANGED <<now, devices, files, apiKeys, uploads, secrets, deviceUuids, served, revokedAtRestart, uploadedBytes>>

DeleteFileMark(s) ==
    /\ NoneDone
    /\ reqs[s].pc = "df_upd"
    /\ files' = MarkDeleted(files, reqs[s].arg)
    /\ reqs' = [reqs EXCEPT ![s].pc = "df_marked"]
    /\ UNCHANGED <<now, devices, apiKeys, disk, uploads, secrets, deviceUuids, served, revokedAtRestart, uploadedBytes>>

DeleteFileUnlink(s) ==
    /\ NoneDone
    /\ reqs[s].pc = "df_marked"
    /\ disk' = RemoveBlob(disk, reqs[s].row[1].filename)
    /\ reqs' = [reqs EXCEPT ![s] = Respond(reqs[s], Ok, <<>>)]
    /\ UNCHANGED <<now, devices, files, apiKeys, uploads, secrets, deviceUuids, served, revokedAtRestart, uploadedBytes>>

(***************************************************************************)
(* POST /api/files/cleanup (gated, write)                                  *)
(***************************************************************************)
\* the rows the sweep selects at clock t
SweepSelects(row, t) ==
    SqlExpired(row.expires_at, t) /\ ~row.is_deleted

ExpiredIds(t) == {f \in FileIds : SweepSelects(files[f], t)}

\* The SELECT executes and the loop is entered, or skipped when nothing
\* expired.  The rows the loop still has to handle are kept as
\* <<id, filename>> pairs; body holds <<cleanedCount, expiredFiles.length>>.
CleanupSelect(s) ==
    /\ NoneDone
    /\ reqs[s].pc = "cl_all"
    /\ LET ids == SetToSeq(ExpiredIds(now))
           rows == [i \in 1..Len(ids) |-> <<ids[i], files[ids[i]].filename>>]
       IN  reqs' = [reqs EXCEPT ![s] =
                      IF rows = <<>> THEN Respond(reqs[s], Ok, <<0, 0>>)
                      ELSE [reqs[s] EXCEPT !.pc = "cl_upd", !.row = rows,
                                           !.body = <<0, Len(ids)>>]]
    /\ UNCHANGED <<now, devices, files, apiKeys, disk, uploads, secrets, deviceUuids, served, revokedAtRestart, uploadedBytes>>

CleanupMark(s) ==
    /\ NoneDone
    /\ reqs[s].pc = "cl_upd"
    /\ files' = MarkDeleted(files, reqs[s].row[1][1])
    /\ reqs' = [reqs EXCEPT ![s].pc = "cl_marked"]
    /\ UNCHANGED <<now, devices, apiKeys, disk, uploads, secrets, deviceUuids, served, revokedAtRestart, uploadedBytes>>

\* the blob of the row just marked is removed, cleanedCount++, and the loop
\* goes on to the next row or the response is sent
CleanupUnlink(s) ==
    /\ NoneDone
    /\ reqs[s].pc = "cl_marked"
    /\ LET r == reqs[s]
           rest == Tail(r.row)
           counts == <<r.body[1] + 1, r.body[2]>>
       IN  /\ disk' = RemoveBlob(disk, r.row[1][2])
           /\ reqs' = [reqs EXCEPT ![s] =
                         IF rest = <<>> THEN Respond(r, Ok, counts)
                         ELSE [r EXCEPT !.pc = "cl_upd", !.row = rest,
                                        !.body = counts]]
    /\ UNCHANGED <<now, devices, files, apiKeys, uploads, secrets, deviceUuids, served, revokedAtRestart, uploadedBytes>>

(***************************************************************************)
(* POST /api/files: upload (public)                                        *)
(***************************************************************************)
\* the address uploads come from, and the name given to a device that sends
\* no deviceName
ClientIP == "10.0.0.7"

AnonymousDeviceName(deviceName) ==
    IF deviceName # "" THEN deviceName ELSE "Anonymous Device (10.0.0.7)"

\* parseInt on the form field: <<n>> for a decimal string, <<>> for NaN
parseInt(str) ==
    CASE str = "-1" -> <<0 - 1>>
      [] str = "0" -> <<0>>
      [] str = "1" -> <<1>>
      [] str = "2" -> <<2>>
      [] OTHER -> <<>>

\* the catch block: `try { unlinkSync(path); unlinkSync(path + ".enc") }
\* catch {}`: the first unlink throws when the staged file is gone and the
\* second is then never reached
CatchCleanupEncOnly(d, path) ==
    IF existsSync(d, EncName(path)) THEN unlinkSync(d, EncName(path)) ELSE d

CatchCleanup(d, path) ==
    IF ~existsSync(d, path) THEN d
    ELSE LET d1 == unlinkSync(d, path)
         IN  IF existsSync(d1, EncName(path)) THEN unlinkSync(d1, EncName(path))
             ELSE d1

\* The synchronous stretch from generateKey() to the files INSERT being
\* issued.  fault names the step that throws: "encrypt" (encryptFile),
\* "write" (writeFileSync, leaving a truncated blob) or "none".  The expiry
\* computation throws by itself when expiresInMinutes is not a number
\* (toISOString of an invalid Date).
EncryptAndStage(r, d, t, fault) ==
    LET path == StagedName(r.up.u)
        key == generateKey(r.up.u)
        blob == encryptFile(d[path], key)
        written == writeFileSync(d, EncName(path), blob)
        staged == unlinkSync(written, path)
        mins == parseInt(r.up.exp)
    IN  IF fault = "encrypt"
        THEN [disk |-> CatchCleanup(d, path),
              req |-> Respond(r, ServerError, <<>>)]
        ELSE IF fault = "write"
        THEN [disk |-> CatchCleanup(
                         writeFileSync(d, EncName(path),
                                       SubSeq(blob, 1, Len(blob) - 1)), path),
              req |-> Respond(r, ServerError, <<>>)]
        ELSE IF r.up.exp # "" /\ mins = <<>>
        THEN [disk |-> CatchCleanup(staged, path),
              req |-> Respond(r, ServerError, <<>>)]
        ELSE [disk |-> staged,
              req |-> [r EXCEPT
                         !.pc = "up_ins",
                         !.up.key = key,
                         !.up.expires_at =
                            IF r.up.exp # "" THEN ToISOString(t + mins[1])
                            ELSE IF EnvMaxFileAge # ""
                                 THEN ToISOString(t + parseInt(EnvMaxFileAge)[1])
                            ELSE NullTime]]

Faults == {"none", "encrypt", "write"}

\* multer has stored the file (or found none) and the handler runs up to its
\* first await
StartUpload(s, hasFile, plain, deviceId, deviceName, exp, fault) ==
    /\ Free(s)
    /\ IF ~hasFile
       THEN /\ reqs' = [reqs EXCEPT ![s] =
                          Respond(NewReq("upload", "idle", NoKey, 0),
                                  BadRequest, <<>>)]
            /\ UNCHANGED <<disk, uploads>>
       ELSE /\ uploads < MaxUploads
            /\ uploads' = uploads + 1
            /\ LET u == uploads + 1
                   d1 == writeFileSync(disk, StagedName(u), PlainContent(plain))
                   r == [NewReq("upload", "up_dev_get", NoKey, 0) EXCEPT
                           !.up = [NoUpload EXCEPT
                                     !.u = u, !.plain = plain,
                                     !.deviceId = deviceId,
                                     !.deviceName = deviceName, !.exp = exp,
                                     !.source = deviceId]]
                   st == EncryptAndStage(r, d1, now, fault)
               IN  IF deviceId = 0
                   THEN /\ fault = "none"
                        /\ disk' = d1
                        /\ reqs' = [reqs EXCEPT ![s] = r]
                   ELSE /\ disk' = st.disk
                        /\ reqs' = [reqs EXCEPT ![s] = st.req]
    /\ UNCHANGED <<now, devices, files, apiKeys, secrets, deviceUuids, served, revokedAtRestart, uploadedBytes>>

\* `SELECT * FROM devices WHERE name = ? AND ip_address = ?`
SelectDeviceByNameIp(name, ip) ==
    LET hits == {d \in DOMAIN devices :
                    devices[d].name = name /\ devices[d].ip_address = ip}
    IN  IF hits = {} THEN <<>>
        ELSE <<CHOOSE d \in hits : \A e \in hits : d <= e>>

UploadDeviceGet(s) ==
    /\ NoneDone
    /\ reqs[s].pc = "up_dev_get"
    /\ reqs' = [reqs EXCEPT
                  ![s].pc = "up_dev_got",
                  ![s].row = SelectDeviceByNameIp(
                                AnonymousDeviceName(reqs[s].up.deviceName),
                                ClientIP)]
    /\ UNCHANGED <<now, devices, files, apiKeys, disk, uploads, secrets, deviceUuids, served, revokedAtRestart, uploadedBytes>>

\* an existing device is reused and the upload goes on to encrypt; otherwise
\* a uuid is drawn and the devices INSERT is issued
UploadDeviceFound(s, fault) ==
    /\ NoneDone
    /\ reqs[s].pc = "up_dev_got"
    /\ LET r == reqs[s]
       IN  IF r.row # <<>>
           THEN LET st == EncryptAndStage(
                             [r EXCEPT !.up.source = r.row[1], !.row = <<>>],
                             disk, now, fault)
                IN  /\ disk' = st.disk
                    /\ reqs' = [reqs EXCEPT ![s] = st.req]
                    /\ UNCHANGED deviceUuids
           ELSE /\ fault = "none"
                /\ deviceUuids < MaxDevices
                /\ deviceUuids' = deviceUuids + 1
                /\ reqs' = [reqs EXCEPT ![s].pc = "up_dev_ins",
                                        ![s].up.source = deviceUuids + 1]
                /\ UNCHANGED disk
    /\ UNCHANGED <<now, devices, files, apiKeys, uploads, secrets, served, revokedAtRestart, uploadedBytes>>

\* `INSERT INTO devices (id, name, ip_address, is_trusted) VALUES (?, ?, ?, 1)`
AnonymousDeviceRow(name, ip, t) ==
    [name |-> name, ip_address |-> ip, fingerprint |-> <<>>,
     is_trusted |-> TRUE, last_seen |-> t]

UploadDeviceInsert(s) ==
    /\ NoneDone
    /\ reqs[s].pc = "up_dev_ins"
    /\ devices' = (reqs[s].up.source :>
                     AnonymousDeviceRow(
                        AnonymousDeviceName(reqs[s].up.deviceName),
                        ClientIP, now)) @@ devices
    /\ reqs' = [reqs EXCEPT ![s].pc = "up_dev_inserted"]
    /\ UNCHANGED <<now, files, apiKeys, disk, uploads, secrets, deviceUuids, served, revokedAtRestart, uploadedBytes>>

UploadDeviceInserted(s, fault) ==
    /\ NoneDone
    /\ reqs[s].pc = "up_dev_inserted"
    /\ LET st == EncryptAndStage(reqs[s], disk, now, fault)
       IN  /\ disk' = st.disk
           /\ reqs' = [reqs EXCEPT ![s] = st.req]
    /\ UNCHANGED <<now, devices, files, apiKeys, uploads, secrets, deviceUuids, served, revokedAtRestart, uploadedBytes>>

\* the row the files INSERT writes
FileRow(up) ==
    [filename |-> EncName(StagedName(up.u)), size |-> Len(up.plain),
     device_id |-> up.source, encryption_key |-> up.key,
     expires_at |-> up.expires_at, download_count |-> 0,
     is_deleted |-> FALSE, upload_time |-> SqlDatetimeNow(now)]

\* After the INSERT: the device name lookup is issued when a deviceName was
\* sent, otherwise the response goes out with the file id.
AfterInsert(r) ==
    IF r.up.deviceName # "" THEN [r EXCEPT !.pc = "up_name_get"]
    ELSE Respond(r, Ok, <<r.arg>>)

\* the INSERT executes, or the engine reports an error and db.run rejects
UploadInsert(s, dbOk) ==
    /\ NoneDone
    /\ reqs[s].pc = "up_ins"
    /\ IF dbOk
         THEN /\ files' = Append(files, FileRow(reqs[s].up))
              /\ served' = Append(served, 0)
              /\ uploadedBytes' = Append(uploadedBytes, reqs[s].up.plain)
              /\ reqs' = [reqs EXCEPT ![s] =
                            AfterInsert([reqs[s] EXCEPT !.arg = Len(files) + 1])]
         ELSE /\ reqs' = [reqs EXCEPT ![s].pc = "up_failed"]
              /\ UNCHANGED <<files, served, uploadedBytes>>
    /\ UNCHANGED <<now, devices, apiKeys, disk, uploads, secrets, deviceUuids, revokedAtRestart>>

\* the rejected INSERT lands in the catch block
UploadFailed(s) ==
    /\ NoneDone
    /\ reqs[s].pc = "up_failed"
    /\ disk' = CatchCleanup(disk, StagedName(reqs[s].up.u))
    /\ reqs' = [reqs EXCEPT ![s] = Respond(reqs[s], ServerError, <<>>)]
    /\ UNCHANGED <<now, devices, files, apiKeys, uploads, secrets, deviceUuids, served, revokedAtRestart, uploadedBytes>>

\* `SELECT name FROM devices WHERE id = ?` executes; when the device exists
\* under another name the UPDATE is issued, otherwise the response goes out
UploadNameGet(s) ==
    /\ NoneDone
    /\ reqs[s].pc = "up_name_get"
    /\ LET r == reqs[s]
           row == IF r.up.source \in DOMAIN devices
                  THEN <<devices[r.up.source].name>> ELSE <<>>
       IN  reqs' = [reqs EXCEPT ![s] =
                      IF row # <<>> /\ row[1] # r.up.deviceName
                      THEN [r EXCEPT !.pc = "up_name_upd"]
                      ELSE Respond(r, Ok, <<r.arg>>)]
    /\ UNCHANGED <<now, devices, files, apiKeys, disk, uploads, secrets, deviceUuids, served, revokedAtRestart, uploadedBytes>>

\* `UPDATE devices SET name = ? WHERE id = ?`, then the response
UploadNameUpdate(s) ==
    /\ NoneDone
    /\ reqs[s].pc = "up_name_upd"
    /\ devices' = [d \in DOMAIN devices |->
                     IF d = reqs[s].up.source
                     THEN [devices[d] EXCEPT !.name = reqs[s].up.deviceName]
                     ELSE devices[d]]
    /\ reqs' = [reqs EXCEPT ![s] = Respond(reqs[s], Ok, <<reqs[s].arg>>)]
    /\ UNCHANGED <<now, files, apiKeys, disk, uploads, secrets, deviceUuids, served, revokedAtRestart, uploadedBytes>>

(***************************************************************************)
(* Device routes behind the gate: trust, untrust, delete; and the public   *)
(* POST /api/devices/register.                                             *)
(***************************************************************************)
\* `UPDATE devices SET is_trusted = ? WHERE id = ?`
SetTrustedNoWhere(ds, deviceId, flag) ==
    [d \in DOMAIN ds |-> [ds[d] EXCEPT !.is_trusted = flag]]

SetTrusted(ds, deviceId, flag) ==
    [d \in DOMAIN ds |->
       IF d = deviceId THEN [ds[d] EXCEPT !.is_trusted = flag] ELSE ds[d]]

trustDevice(s) ==
    /\ NoneDone
    /\ reqs[s].pc = "trust_run"
    /\ devices' = SetTrusted(devices, reqs[s].arg, TRUE)
    /\ reqs' = [reqs EXCEPT ![s] = Respond(reqs[s], Ok, <<>>)]
    /\ UNCHANGED <<now, files, apiKeys, disk, uploads, secrets, deviceUuids, served, revokedAtRestart, uploadedBytes>>

untrustDevice(s) ==
    /\ NoneDone
    /\ reqs[s].pc = "untrust_run"
    /\ devices' = SetTrusted(devices, reqs[s].arg, FALSE)
    /\ reqs' = [reqs EXCEPT ![s] = Respond(reqs[s], Ok, <<>>)]
    /\ UNCHANGED <<now, files, apiKeys, disk, uploads, secrets, deviceUuids, served, revokedAtRestart, uploadedBytes>>

\* DeviceManager.deleteDevice: it throws for the own id (the route answers
\* 500 from its catch), otherwise `DELETE FROM devices WHERE id = ?`
deleteDevice(s) ==
    /\ NoneDone
    /\ reqs[s].pc = "dd_run"
    /\ IF reqs[s].arg = SelfDeviceId
       THEN /\ devices' = devices
            /\ reqs' = [reqs EXCEPT ![s] = Respond(reqs[s], ServerError, <<>>)]
       ELSE /\ devices' = [d \in DOMAIN devices \ {reqs[s].arg} |-> devices[d]]
            /\ reqs' = [reqs EXCEPT ![s] = Respond(reqs[s], Ok, <<>>)]
    /\ UNCHANGED <<now, files, apiKeys, disk, uploads, secrets, deviceUuids, served, revokedAtRestart, uploadedBytes>>

\* The register request arrives: without a name or a public key it is
\* answered 400; otherwise a uuid is drawn and addDiscoveredDevice runs its
\* `SELECT * FROM devices WHERE id = ?`.
RegisterGet(s, deviceName, publicKey) ==
    /\ Free(s)
    /\ IF deviceName = "" \/ publicKey = ""
       THEN /\ reqs' = [reqs EXCEPT ![s] =
                          Respond(NewReq("register", "idle", NoKey, 0),
                                  BadRequest, <<>>)]
            /\ UNCHANGED deviceUuids
       ELSE /\ deviceUuids < MaxDevices
            /\ deviceUuids' = deviceUuids + 1
            /\ reqs' = [reqs EXCEPT ![s] =
                          [NewReq("register", "reg_got", NoKey, deviceUuids + 1)
                             EXCEPT !.row = IF deviceUuids + 1 \in DOMAIN devices
                                            THEN <<deviceUuids + 1>> ELSE <<>>,
                                    !.body = <<deviceName, publicKey, ClientIP>>]]
    /\ UNCHANGED <<now, devices, files, apiKeys, disk, uploads, secrets, served, revokedAtRestart, uploadedBytes>>

\* The serviceUp callback of the mDNS browser (startMDNSDiscovery, the
\* optional discovery): another node announces itself under its device id
\* and addDiscoveredDevice runs its SELECT.  The callback is no request:
\* its slot ends without any answer being sent to a client.
ServiceUp(s, deviceId, deviceName, publicKey, ipAddress) ==
    /\ Free(s)
    /\ deviceId # SelfDeviceId
    /\ reqs' = [reqs EXCEPT ![s] =
                  [NewReq("serviceUp", "reg_got", NoKey, deviceId) EXCEPT
                     !.row = IF deviceId \in DOMAIN devices
                             THEN <<deviceId>> ELSE <<>>,
                     !.body = <<deviceName, publicKey, ipAddress>>]]
    /\ UNCHANGED <<now, devices, files, apiKeys, disk, uploads, secrets, deviceUuids, served, revokedAtRestart, uploadedBytes>>

\* the INSERT with is_trusted = 0, or the UPDATE of an existing row
RegisterWrite(s) ==
    /\ NoneDone
    /\ reqs[s].pc = "reg_got"
    /\ LET r == reqs[s]
           fp == generateFingerprint(r.body[2])
       IN  /\ devices' =
                IF r.row = <<>>
                THEN (r.arg :> [name |-> r.body[1], ip_address |-> r.body[3],
                                fingerprint |-> fp, is_trusted |-> FALSE,
                                last_seen |-> now]) @@ devices
                ELSE [devices EXCEPT ![r.arg] =
                        [@ EXCEPT !.name = r.body[1], !.ip_address = r.body[3],
                                  !.fingerprint = fp, !.last_seen = now]]
           /\ reqs' = [reqs EXCEPT ![s] = Respond(r, Ok, <<r.arg>>)]
    /\ UNCHANGED <<now, files, apiKeys, disk, uploads, secrets, deviceUuids, served, revokedAtRestart, uploadedBytes>>

(***************************************************************************)
(* API key routes: generate (gated, write), revoke and bootstrap.          *)
(***************************************************************************)
\* the row an api_keys INSERT writes; is_active takes its default 1
KeyRow(secret, deviceId, permissions, expires_at) ==
    [key_hash |-> hashApiKey(secret), device_id |-> deviceId,
     permissions |-> permissions, expires_at |-> expires_at,
     is_active |-> TRUE]

\* `expiresAt.setHours(expiresAt.getHours() + expiresInHours)` when
\* expiresInHours is given (0 is not), else null
KeyExpiresAt(expiresInHours, t) ==
    IF expiresInHours # 0 THEN <<t + expiresInHours * HourLen>> ELSE NullTime

\* The handler of POST /api/auth/api-key: a secret is generated and the
\* INSERT executes.  deviceId, permissions and expiresInHours are the fields
\* of the request body, read here for the first time; deviceId 0 is an
\* absent field.
generateApiKey(s, deviceId, permissions, expiresInHours) ==
    /\ NoneDone
    /\ reqs[s].pc = "gk_ins"
    /\ secrets' = secrets + 1
    /\ apiKeys' = Append(apiKeys,
                         KeyRow(secrets + 1,
                                IF deviceId # 0 THEN deviceId ELSE SelfDeviceId,
                                permissions,
                                KeyExpiresAt(expiresInHours, now)))
    /\ reqs' = [reqs EXCEPT ![s] = Respond(reqs[s], Ok, <<secrets + 1>>)]
    /\ UNCHANGED <<now, devices, files, disk, uploads, deviceUuids, served, revokedAtRestart, uploadedBytes>>

\* `UPDATE api_keys SET is_active = 0 WHERE id = ?`
SetInactive(keys, keyId) ==
    [k \in 1..Len(keys) |->
       IF k = keyId THEN [keys[k] EXCEPT !.is_active = FALSE] ELSE keys[k]]

\* DELETE /api/auth/api-keys/:keyId is registered without middleware: the
\* request arrives, whatever key it carries, and the UPDATE executes
revokeApiKey(s, key, keyId) ==
    /\ Free(s)
    /\ apiKeys' = SetInactive(apiKeys, keyId)
    /\ reqs' = [reqs EXCEPT ![s] =
                  Respond(NewReq("revokeApiKey", "idle", key, keyId), Ok, <<>>)]
    /\ UNCHANGED <<now, devices, files, disk, uploads, secrets, deviceUuids, served, revokedAtRestart, uploadedBytes>>

\* `SELECT COUNT(*) as count FROM api_keys WHERE is_active = 1`
CountActiveKeys(keys) ==
    Cardinality({k \in 1..Len(keys) : keys[k].is_active})

\* the bootstrap request arrives and its count query executes
BootstrapCount(s) ==
    /\ Free(s)
    /\ reqs' = [reqs EXCEPT ![s] =
                  IF CountActiveKeys(apiKeys) > 0
                  THEN Respond(NewReq("bootstrap", "idle", NoKey, 0),
                               BadRequest, <<>>)
                  ELSE NewReq("bootstrap", "bs_ins", NoKey, 0)]
    /\ UNCHANGED <<now, devices, files, apiKeys, disk, uploads, secrets, deviceUuids, served, revokedAtRestart, uploadedBytes>>

\* a secret is generated and the INSERT of the admin key executes
BootstrapInsert(s) ==
    /\ NoneDone
    /\ reqs[s].pc = "bs_ins"
    /\ secrets' = secrets + 1
    /\ apiKeys' = Append(apiKeys,
                         KeyRow(secrets + 1, SelfDeviceId, PermsBootstrap,
                                NullTime))
    /\ reqs' = [reqs EXCEPT ![s] = Respond(reqs[s], Ok, <<secrets + 1>>)]
    /\ UNCHANGED <<now, devices, files, disk, uploads, deviceUuids, served, revokedAtRestart, uploadedBytes>>

\* GET /api/auth/api-keys (no middleware is mounted on it):
\* `SELECT ak.id, ak.device_id, ak.permissions, ak.created_at, ak.expires_at,
\* ak.is_active, d.name ... WHERE ak.is_active = 1`; body holds the ids
listApiKeys(s) ==
    /\ Free(s)
    /\ reqs' = [reqs EXCEPT ![s] =
                  Respond(NewReq("listApiKeys", "idle", NoKey, 0), Ok,
                          SetToSeq({k \in 1..Len(apiKeys) :
                                      apiKeys[k].is_active}))]
    /\ UNCHANGED <<now, devices, files, apiKeys, disk, uploads, secrets, deviceUuids, served, revokedAtRestart, uploadedBytes>>

\* id of the row db.get returns for a key hash among the active rows
ActiveKeyId(keys, hash) ==
    LET hits == {k \in 1..Len(keys) :
                    keys[k].key_hash = hash /\ keys[k].is_active}
    IN  IF hits = {} THEN 0 ELSE CHOOSE k \in hits : \A j \in hits : k <= j

\* POST /api/auth/validate: without apiKey in the body it is answered 400,
\* otherwise the key lookup executes
ValidateGet(s, apiKey) ==
    /\ Free(s)
    /\ reqs' = [reqs EXCEPT ![s] =
                  IF apiKey = NoKey
                  THEN Respond(NewReq("validate", "idle", NoKey, 0),
                               BadRequest, <<>>)
                  ELSE [NewReq("validate", "val_got", apiKey,
                               ActiveKeyId(apiKeys, hashApiKey(apiKey)))
                          EXCEPT !.row = SelectActiveKey(apiKeys,
                                                         hashApiKey(apiKey))]]
    /\ UNCHANGED <<now, devices, files, apiKeys, disk, uploads, secrets, deviceUuids, served, revokedAtRestart, uploadedBytes>>

\* 401 for no row or an expired key, otherwise keyId, deviceId, permissions
ValidateRespond(s) ==
    /\ NoneDone
    /\ reqs[s].pc = "val_got"
    /\ LET r == reqs[s]
       IN  reqs' = [reqs EXCEPT ![s] =
                      IF r.row = <<>> THEN Respond(r, Unauthenticated, <<>>)
                      ELSE IF KeyExpired(r.row[1].expires_at, now)
                           THEN Respond(r, Unauthenticated, <<>>)
                      ELSE Respond(r, Ok, <<r.arg>>)]
    /\ UNCHANGED <<now, devices, files, apiKeys, disk, uploads, secrets, deviceUuids, served, revokedAtRestart, uploadedBytes>>

(***************************************************************************)
(* The process stops and is started again on the same data directory:      *)
(* initializeServer runs before the port is opened, so no request          *)
(* interleaves with it; the requests that were in flight are gone.         *)
(***************************************************************************)
\* DeviceManager.registerDevice at clock t
registerDeviceAsNew(ds, t) ==
    (SelfDeviceId :> [SelfDeviceRow EXCEPT !.last_seen = t]) @@ ds

registerDevice(ds, t) ==
    IF SelfDeviceId \in DOMAIN ds
    THEN [ds EXCEPT ![SelfDeviceId] =
            [@ EXCEPT !.name = SelfDeviceName, !.ip_address = LocalIP,
                      !.fingerprint = generateFingerprint(SelfPublicKey),
                      !.last_seen = t]]
    ELSE (SelfDeviceId :> [SelfDeviceRow EXCEPT !.last_seen = t]) @@ ds

\* `SELECT * FROM api_keys WHERE key_hash = ?`: the ids of the rows found
SelectKeyByHashIfActive(keys, hash) ==
    {k \in 1..Len(keys) : keys[k].key_hash = hash /\ keys[k].is_active}

SelectKeyByHash(keys, hash) ==
    {k \in 1..Len(keys) : keys[k].key_hash = hash}

\* "Create initial API key if configured"
RegisterInitialKey(keys) ==
    IF EnvApiKey # NoKey /\ SelectKeyByHash(keys, hashApiKey(EnvApiKey)) = {}
    THEN Append(keys, InitialKeyRow)
    ELSE keys

Restart ==
    /\ NoneDone
    /\ devices' = registerDevice(devices, now)
    /\ apiKeys' = RegisterInitialKey(apiKeys)
    /\ reqs' = [s \in Slots |-> IdleReq]
    /\ revokedAtRestart' =
          revokedAtRestart \cup {k \in 1..Len(apiKeys) : ~apiKeys[k].is_active}
    /\ UNCHANGED <<now, files, disk, uploads, secrets, deviceUuids, served, uploadedBytes>>

(***************************************************************************)
(* SpecFiles: the file routes, one request at a time, from the state       *)
(* after start-up.  Uploads name the node's own device; gated requests     *)
(* carry the configured API key; every step of an upload may fail.         *)
(***************************************************************************)
\* the specifications that do not race uploads against each other take one
\* upload fewer than the bound
SingleUploads == MaxUploads - 1

\* and draw one device id fewer
SingleDevices == MaxDevices - 1

ExpInputs == {"", "0", "1", "abc"}

\* file ids a client may ask for: every id in use and one that is not
AskIds == 1..(Len(files) + 1)

\* requests are taken one at a time
OneAtATime == {1}

Closing == \E s \in Slots : Close(s)

UploadRequest ==
    \E s \in OneAtATime, hasFile \in BOOLEAN, plain \in Plaintexts,
       exp \in ExpInputs, fault \in Faults :
        /\ (hasFile => uploads < SingleUploads)
        /\ StartUpload(s, hasFile, plain, SelfDeviceId, "", exp, fault)

UploadSteps ==
    \E s \in Slots : (\E dbOk \in BOOLEAN : UploadInsert(s, dbOk)) \/ UploadFailed(s)

ListRequest == \E s \in OneAtATime : ListFiles(s)

InfoRequest == \E s \in OneAtATime, f \in AskIds : InfoGet(s, f)

InfoSteps == \E s \in Slots : InfoRespond(s)

DownloadRequest == \E s \in OneAtATime, f \in AskIds : DownloadGet(s, f)

DownloadSteps ==
    \E s \in Slots : DownloadRead(s) \/ \E dbOk \in BOOLEAN : DownloadCount(s, dbOk)

DeleteFileRequest ==
    \E s \in OneAtATime, f \in AskIds :
        GatedRequest(s, "deleteFile", EnvApiKey, f)

CleanupRequest == \E s \in OneAtATime : GatedRequest(s, "cleanup", EnvApiKey, 0)

GateSteps == \E s \in Slots : AuthCheck(s)

DeleteFileSteps ==
    \E s \in Slots :
        DeleteFileGet(s) \/ DeleteFileMark(s) \/ DeleteFileUnlink(s)

CleanupSteps ==
    \E s \in Slots : CleanupSelect(s) \/ CleanupMark(s) \/ CleanupUnlink(s)

NextFiles ==
    \/ Tick
    \/ Closing
    \/ UploadRequest
    \/ UploadSteps
    \/ ListRequest
    \/ InfoRequest
    \/ InfoSteps
    \/ DownloadRequest
    \/ DownloadSteps
    \/ DeleteFileRequest
    \/ CleanupRequest
    \/ GateSteps
    \/ DeleteFileSteps
    \/ CleanupSteps

SpecFiles == Init /\ [][NextFiles]_vars

(***************************************************************************)
(* SpecRace: downloads, deleteFile and cleanup of one file under every     *)
(* interleaving of MaxInflight requests.  The initial state is the state   *)
(* after the node's own device has uploaded one file at clock 0, without   *)
(* expiry or expiring after one minute.                                    *)
(***************************************************************************)
RacePlain == <<104, 105>>

RaceUpload(exp) ==
    [NoUpload EXCEPT !.u = 1, !.plain = RacePlain, !.deviceId = SelfDeviceId,
                     !.exp = exp, !.source = SelfDeviceId,
                     !.key = generateKey(1),
                     !.expires_at = IF exp = "" THEN NullTime
                                    ELSE ToISOString(parseInt(exp)[1])]

InitRace ==
    /\ now = 0
    /\ devices = (SelfDeviceId :> SelfDeviceRow)
    /\ apiKeys = <<InitialKeyRow>>
    /\ \E exp \in {"", "1"} : files = <<FileRow(RaceUpload(exp))>>
    /\ disk = (EncName(StagedName(1)) :> encryptFile(RacePlain, generateKey(1)))
    /\ reqs = [s \in Slots |-> IdleReq]
    /\ uploads = 1
    /\ secrets = 1
    /\ deviceUuids = 1
    /\ served = <<0>>
    /\ revokedAtRestart = {}
    /\ uploadedBytes = <<RacePlain>>

RaceDownloadRequest == \E s \in Slots, f \in AskIds : DownloadGet(s, f)

RaceDeleteFileRequest ==
    \E s \in Slots, f \in AskIds : GatedRequest(s, "deleteFile", EnvApiKey, f)

RaceCleanupRequest == \E s \in Slots : GatedRequest(s, "cleanup", EnvApiKey, 0)

RaceListRequest == \E s \in Slots : ListFiles(s)

RaceInfoRequest == \E s \in Slots, f \in AskIds : InfoGet(s, f)

NextRace ==
    \/ Tick
    \/ Closing
    \/ RaceListRequest
    \/ RaceInfoRequest
    \/ InfoSteps
    \/ RaceDownloadRequest
    \/ DownloadSteps
    \/ RaceDeleteFileRequest
    \/ RaceCleanupRequest
    \/ GateSteps
    \/ DeleteFileSteps
    \/ CleanupSteps

SpecRace == InitRace /\ [][NextRace]_vars

(***************************************************************************)
(* SpecAuth: the API key routes and the trust routes behind the gate, one  *)
(* request at a time, from the state after start-up, with restarts of the  *)
(* process.  Gated requests carry no key, the secret of a key ever issued, *)
(* or a secret never issued.                                               *)
(***************************************************************************)
\* the secrets a client may send: none, every one issued, one never issued
AskKeys == 0..(secrets + 1)

\* device ids a client may name: every uuid drawn so far
AskDevices == 1..deviceUuids

\* key ids a client may name: every id in use and one that is not
AskKeyIds == 1..(Len(apiKeys) + 1)

PermInputs == {<<"read">>, <<"read", "write">>, <<"admin">>}

HourInputs == {0, 1}

TrustRequest ==
    \E s \in OneAtATime, key \in AskKeys, d \in AskDevices,
       op \in {"trustDevice", "untrustDevice"} :
        GatedRequest(s, op, key, d)

TrustSteps == \E s \in Slots : trustDevice(s) \/ untrustDevice(s)

GenerateKeyRequest ==
    \E s \in OneAtATime, key \in AskKeys :
        /\ Len(apiKeys) < MaxKeys
        /\ GatedRequest(s, "generateApiKey", key, 0)

GenerateKeySteps ==
    \E s \in Slots, permissions \in PermInputs, expiresInHours \in HourInputs :
        generateApiKey(s, 0, permissions, expiresInHours)

RevokeRequest ==
    \E s \in OneAtATime, key \in AskKeys, keyId \in AskKeyIds :
        revokeApiKey(s, key, keyId)

BootstrapRequest ==
    \E s \in OneAtATime : Len(apiKeys) < MaxKeys /\ BootstrapCount(s)

BootstrapSteps == \E s \in Slots : BootstrapInsert(s)

NextAuth ==
    \/ Tick
    \/ Closing
    \/ TrustRequest
    \/ TrustSteps
    \/ GenerateKeyRequest
    \/ GenerateKeySteps
    \/ RevokeRequest
    \/ BootstrapRequest
    \/ BootstrapSteps
    \/ GateSteps
    \/ Restart

SpecAuth == Init /\ [][NextAuth]_vars

(***************************************************************************)
(* SpecDevices: the device routes, registration, restarts and uploads      *)
(* that name a device or come anonymously, one request at a time, from     *)
(* the state after start-up.  Gated requests carry no key or the           *)
(* configured API key.  The clock stands still at some reading at or after *)
(* the start-up, so that a restart is seen in last_seen.                   *)
(***************************************************************************)
InitDevices ==
    /\ now \in 0..MaxTime
    /\ devices = (SelfDeviceId :> SelfDeviceRow)
    /\ files = <<>>
    /\ apiKeys = <<InitialKeyRow>>
    /\ disk = <<>>
    /\ reqs = [s \in Slots |-> IdleReq]
    /\ uploads = 0
    /\ secrets = 1
    /\ deviceUuids = 1
    /\ served = <<>>
    /\ revokedAtRestart = {}
    /\ uploadedBytes = <<>>

DeviceNames == {"", "phone"}

DeviceRequest ==
    \E s \in OneAtATime, key \in {NoKey, EnvApiKey}, d \in AskDevices,
       op \in {"trustDevice", "untrustDevice", "deleteDevice"} :
        GatedRequest(s, op, key, d)

DeviceSteps ==
    \E s \in Slots : trustDevice(s) \/ untrustDevice(s) \/ deleteDevice(s)

RegisterRequest ==
    \E s \in OneAtATime, deviceName \in DeviceNames, publicKey \in {"", "pk-phone"} :
        /\ (deviceName # "" /\ publicKey # "") => deviceUuids < SingleDevices
        /\ RegisterGet(s, deviceName, publicKey)

RegisterSteps == \E s \in Slots : RegisterWrite(s)

\* another node is sighted under an id that was drawn before
Sighting ==
    \E s \in OneAtATime, d \in AskDevices :
        ServiceUp(s, d, "tablet", "pk-tablet", "10.0.0.9")

DeviceUploadRequest ==
    \E s \in OneAtATime, hasFile \in BOOLEAN, deviceId \in {0} \cup AskDevices,
       deviceName \in DeviceNames, exp \in {"", "abc"} :
        /\ (hasFile => uploads < SingleUploads)
        /\ StartUpload(s, hasFile, <<104>>, deviceId, deviceName, exp, "none")

DeviceUploadSteps ==
    \E s \in Slots :
        \/ UploadDeviceGet(s)
        \/ /\ reqs[s].row = <<>> => deviceUuids < SingleDevices
           /\ UploadDeviceFound(s, "none")
        \/ UploadDeviceInsert(s)
        \/ UploadDeviceInserted(s, "none")
        \/ UploadInsert(s, TRUE)
        \/ UploadNameGet(s)
        \/ UploadNameUpdate(s)

NextDevices ==
    \/ Closing
    \/ DeviceRequest
    \/ DeviceSteps
    \/ RegisterRequest
    \/ RegisterSteps
    \/ Sighting
    \/ DeviceUploadRequest
    \/ DeviceUploadSteps
    \/ GateSteps
    \/ Restart

SpecDevices == InitDevices /\ [][NextDevices]_vars

(***************************************************************************)
(* SpecResponses: the file routes of SpecFiles together with the key and   *)
(* registration routes, requests taken one at a time, for what the answers *)
(* carry.  The clock reading is any one of the model's and stays; uploads  *)
(* come without expiry, with an expiry one minute in the past, or with a   *)
(* non-numeric one.                                                        *)
(***************************************************************************)
ResponseUploadRequest ==
    \E s \in OneAtATime, hasFile \in BOOLEAN, exp \in {"", "-1", "abc"} :
        /\ (hasFile => uploads < SingleUploads)
        /\ StartUpload(s, hasFile, <<104, 105>>, SelfDeviceId, "", exp, "none")

ListApiKeysRequest == \E s \in OneAtATime : listApiKeys(s)

ValidateRequest == \E s \in OneAtATime, key \in AskKeys : ValidateGet(s, key)

ValidateSteps == \E s \in Slots : ValidateRespond(s)

ResponseGenerateKeyRequest ==
    \E s \in OneAtATime :
        /\ Len(apiKeys) < MaxKeys
        /\ GatedRequest(s, "generateApiKey", EnvApiKey, 0)

ResponseGenerateKeySteps ==
    \E s \in Slots, expiresInHours \in HourInputs :
        generateApiKey(s, 0, <<"read", "write">>, expiresInHours)

ResponseRegisterRequest ==
    \E s \in OneAtATime, deviceName \in DeviceNames :
        /\ deviceName # "" => deviceUuids < SingleDevices
        /\ RegisterGet(s, deviceName, "pk-phone")

NextResponses ==
    \/ Closing
    \/ ResponseUploadRequest
    \/ UploadSteps
    \/ ListRequest
    \/ InfoRequest
    \/ InfoSteps
    \/ DownloadRequest
    \/ DownloadSteps
    \/ DeleteFileRequest
    \/ CleanupRequest
    \/ GateSteps
    \/ DeleteFileSteps
    \/ CleanupSteps
    \/ ListApiKeysRequest
    \/ ValidateRequest
    \/ ValidateSteps
    \/ ResponseGenerateKeyRequest
    \/ ResponseGenerateKeySteps
    \/ ResponseRegisterRequest
    \/ RegisterSteps

SpecResponses == InitDevices /\ [][NextResponses]_vars

(***************************************************************************)
(* SpecStore: uploads, deleteFile and cleanup (the writers of the ledger    *)
(* and of the blobs; SpecRace has the downloads) under every               *)
(* interleaving of MaxInflight requests, with the process stopping and     *)
(* starting again at any point.  The clock reads the last of the model's   *)
(* readings and stays; uploads come without expiry or with an expiry one   *)
(* minute in the past, and their encryption, ciphertext write or INSERT    *)
(* may fail.                                                               *)
(***************************************************************************)
InitStore == InitDevices /\ now = MaxTime

StoreUploadRequest ==
    \E s \in Slots, exp \in {"", "-1"}, fault \in Faults :
        /\ uploads < SingleUploads
        /\ StartUpload(s, TRUE, <<104>>, SelfDeviceId, "", exp, fault)

NextStore ==
    \/ Closing
    \/ StoreUploadRequest
    \/ UploadSteps
    \/ RaceDeleteFileRequest
    \/ RaceCleanupRequest
    \/ GateSteps
    \/ DeleteFileSteps
    \/ CleanupSteps
    \/ Restart

SpecStore == InitStore /\ [][NextStore]_vars

(***************************************************************************)
(* SpecAnon: uploads that name no device, from one address, under every    *)
(* interleaving of MaxInflight requests.                                   *)
(***************************************************************************)
AnonUploadRequest ==
    \E s \in Slots, deviceName \in DeviceNames :
        StartUpload(s, TRUE, <<104>>, 0, deviceName, "", "none")

AnonUploadSteps ==
    \E s \in Slots :
        \/ UploadDeviceGet(s)
        \/ UploadDeviceFound(s, "none")
        \/ UploadDeviceInsert(s)
        \/ UploadDeviceInserted(s, "none")
        \/ UploadInsert(s, TRUE)
        \/ UploadNameGet(s)

NextAnon ==
    \/ Closing
    \/ AnonUploadRequest
    \/ AnonUploadSteps

SpecAnon == Init /\ [][NextAnon]_vars

(***************************************************************************)
(* SpecBoot: bootstrap and revoke requests that carry no key, several in   *)
(* flight, from the state after a start-up with no API_KEY configured      *)
(* (initializeServer then registers no key and the api_keys table is       *)
(* empty).                                                                 *)
(***************************************************************************)
InitBoot ==
    /\ now = 0
    /\ devices = (SelfDeviceId :> SelfDeviceRow)
    /\ files = <<>>
    /\ apiKeys = <<>>
    /\ disk = <<>>
    /\ reqs = [s \in Slots |-> IdleReq]
    /\ uploads = 0
    /\ secrets = 1
    /\ deviceUuids = 1
    /\ served = <<>>
    /\ revokedAtRestart = {}
    /\ uploadedBytes = <<>>

RaceBootstrapRequest ==
    \E s \in Slots : Len(apiKeys) < MaxKeys /\ BootstrapCount(s)

RaceRevokeRequest ==
    \E s \in Slots, keyId \in AskKeyIds : revokeApiKey(s, NoKey, keyId)

RaceListApiKeysRequest == \E s \in Slots : listApiKeys(s)

RaceValidateRequest ==
    \E s \in Slots, key \in AskKeys : ValidateGet(s, key)

NextBoot ==
    \/ Closing
    \/ RaceBootstrapRequest
    \/ BootstrapSteps
    \/ RaceRevokeRequest
    \/ RaceListApiKeysRequest
    \/ RaceValidateRequest
    \/ ValidateSteps

SpecBoot == InitBoot /\ [][NextBoot]_vars

(***************************************************************************)
(* C1: a step of a trustDevice, untrustDevice, deleteDevice, deleteFile,   *)
(* cleanup, generateApiKey or revokeApiKey request changes the devices,    *)
(* files or api_keys table only when the gate has attached to the request  *)
(* the permissions of a key that hold write or admin; and a request to     *)
(* one of these routes that carries no key, or a secret no key record has  *)
(* the hash of, changes none of the three tables.                          *)
(***************************************************************************)
C1_AdminOpsNeedAuthorisedKey ==
    /\ [][\A s \in Slots :
            (/\ reqs'[s] # reqs[s]
             /\ reqs'[s].op \in {"trustDevice", "untrustDevice", "deleteDevice",
                                 "deleteFile", "cleanup", "generateApiKey",
                                 "revokeApiKey"}
             /\ <<devices, files, apiKeys>>' # <<devices, files, apiKeys>>)
            => \/ Includes(reqs'[s].perms, "write")
               \/ Includes(reqs'[s].perms, "admin")]_vars
    /\ [][\A s \in Slots :
            (/\ reqs'[s] # reqs[s]
             /\ reqs'[s].op \in {"trustDevice", "untrustDevice", "deleteDevice",
                                 "deleteFile", "cleanup", "generateApiKey",
                                 "revokeApiKey"}
             /\ \/ reqs'[s].key = NoKey
                \/ SelectKeyByHash(apiKeys, hashApiKey(reqs'[s].key)) = {})
            => <<devices, files, apiKeys>>' = <<devices, files, apiKeys>>]_vars

(***************************************************************************)
(* C2: a key record that is inactive is never found by the gate's lookup   *)
(* of its hash, in any state reached afterwards, restarts included; the    *)
(* record stays in the table exactly as it is, so is_active never returns  *)
(* to TRUE; and a gated request whose secret hashes to an inactive record  *)
(* is answered 401 with the tables unchanged.                              *)
(***************************************************************************)
C2_RevokedKeyNeverAuthenticates ==
    /\ [](\A k \in 1..Len(apiKeys) :
             ~apiKeys[k].is_active
             => SelectActiveKey(apiKeys, apiKeys[k].key_hash) = <<>>)
    /\ [][\A k \in 1..Len(apiKeys) :
             ~apiKeys[k].is_active
             => k \in 1..Len(apiKeys') /\ apiKeys'[k] = apiKeys[k]]_vars
    /\ [][\A s \in Slots :
            (/\ reqs[s].pc = "auth_got"
             /\ reqs'[s] # reqs[s]
             /\ reqs'[s].pc # "idle"
             /\ \E k \in 1..Len(apiKeys) :
                   /\ ~apiKeys[k].is_active
                   /\ apiKeys[k].key_hash = hashApiKey(reqs[s].key))
            => /\ reqs'[s].pc = "done"
               /\ reqs'[s].resp = Unauthenticated
               /\ <<devices, files, apiKeys>>' = <<devices, files, apiKeys>>]_vars

\* the configured initial key was revoked, the process has been started
\* again since, and a gated request with the configured secret was answered
\* 401; the record with its hash is still there
C2_Witness ==
    \E s \in Slots, k \in 1..Len(apiKeys) :
        /\ k \in revokedAtRestart
        /\ ~apiKeys[k].is_active
        /\ apiKeys[k].key_hash = hashApiKey(EnvApiKey)
        /\ reqs[s].pc = "done"
        /\ reqs[s].op \in {"trustDevice", "untrustDevice", "generateApiKey"}
        /\ reqs[s].key = EnvApiKey
        /\ reqs[s].resp = Unauthenticated

(***************************************************************************)
(* C3: when a request to a gated route is answered on arrival or leaves    *)
(* the authentication stage, then: if it carries no key, or no active      *)
(* record has its secret's hash, or that record is past its expires_at,    *)
(* it is answered 401; if the record is valid but holds neither write nor  *)
(* admin, it is answered 403; and in both cases no table changes.          *)
(***************************************************************************)
C3_BadKeyIsRefused ==
    [][\A s \in Slots :
          (/\ reqs[s].pc \in {"idle", "auth_got"}
           /\ reqs'[s].pc \notin {"idle", "auth_got"}
           /\ reqs'[s].op \in {"trustDevice", "untrustDevice", "deleteDevice",
                               "deleteFile", "cleanup", "generateApiKey",
                               "revokeApiKey"})
          => LET r == reqs'[s]
                 row == SelectActiveKey(apiKeys, hashApiKey(r.key))
                 unauthenticated ==
                     \/ r.key = NoKey
                     \/ row = <<>>
                     \/ KeyExpired(row[1].expires_at, now)
                 forbidden ==
                     /\ ~unauthenticated
                     /\ ~Includes(row[1].permissions, "write")
                     /\ ~Includes(row[1].permissions, "admin")
             IN  /\ unauthenticated
                    => /\ r.pc = "done" /\ r.resp = Unauthenticated
                       /\ <<devices, files, apiKeys>>' = <<devices, files, apiKeys>>
                 /\ forbidden
                    => /\ r.pc = "done" /\ r.resp = Forbidden
                       /\ <<devices, files, apiKeys>>' = <<devices, files, apiKeys>>]_vars

(***************************************************************************)
(* C4: once a File Record has is_deleted = TRUE it never has               *)
(* is_deleted = FALSE again: no step of any download, info, list,          *)
(* deleteFile or cleanup request, in any interleaving, moves a tombstoned  *)
(* record back to active, and no step removes the record.                  *)
(***************************************************************************)
C4_TombstoneIsPermanent ==
    [][\A f \in FileIds :
          files[f].is_deleted => f \in 1..Len(files') /\ files'[f].is_deleted]_vars

\* a tombstoned record has been asked for again and was refused at the lookup
C4_Witness ==
    \E s \in Slots, f \in FileIds :
        /\ files[f].is_deleted
        /\ reqs[s].pc = "done" /\ reqs[s].op = "download" /\ reqs[s].arg = f
        /\ reqs[s].row = <<>> /\ reqs[s].resp = NotFound

(***************************************************************************)
(* C6: when the lookup of a download or info request found the record not  *)
(* tombstoned and the clock is past the record's expiresAt, the request    *)
(* is answered 410 Expired (not 404), with no bytes or metadata, and the   *)
(* files table, download_count included, stays as it is.                   *)
(***************************************************************************)
C6_ExpiredIsRefused ==
    [][\A s \in Slots :
          (/\ reqs[s].pc \in {"dl_got", "info_got"}
           /\ reqs'[s] # reqs[s]
           /\ reqs[s].row # <<>>
           /\ reqs[s].row[1].expires_at # NullTime
           /\ now > ParseDate(reqs[s].row[1].expires_at))
          => /\ reqs'[s].pc = "done"
             /\ reqs'[s].resp = Expired
             /\ reqs'[s].resp # NotFound
             /\ reqs'[s].body = <<>>
             /\ files' = files
             /\ served' = served]_vars

\* a download was refused as expired although the record is not tombstoned
\* and its ciphertext is on disk and decrypts
C6_Witness ==
    \E s \in Slots :
        /\ reqs[s].pc = "done" /\ reqs[s].op = "download"
        /\ reqs[s].resp = Expired
        /\ reqs[s].arg \in FileIds
        /\ ~files[reqs[s].arg].is_deleted
        /\ existsSync(disk, files[reqs[s].arg].filename)
        /\ decryptFile(disk[files[reqs[s].arg].filename],
                       files[reqs[s].arg].encryption_key).ok

C10_WholeFileOrNotFound ==
    /\ [][\A s \in Slots :
            (/\ reqs[s].pc = "dl_got"
             /\ reqs'[s] # reqs[s]
             /\ reqs[s].row # <<>>
             /\ (reqs[s].row[1].expires_at = NullTime
                 \/ now <= ParseDate(reqs[s].row[1].expires_at)))
            => \/ reqs'[s].pc = "dl_upd" /\ reqs'[s].body = RacePlain
               \/ reqs'[s].pc = "done" /\ reqs'[s].resp = NotFound]_vars
    /\ [][\A s \in Slots :
            (/\ reqs[s].op = "download"
             /\ reqs[s].pc # "done"
             /\ reqs'[s].pc = "done"
             /\ reqs'[s].resp = Ok)
            => reqs'[s].body = RacePlain]_vars

\* a download that had found the record was answered 404 because the blob
\* was removed before it read it
C10_Witness ==
    \E s \in Slots :
        /\ reqs[s].pc = "done" /\ reqs[s].op = "download"
        /\ reqs[s].row # <<>>
        /\ reqs[s].resp = NotFound
        /\ files[reqs[s].arg].is_deleted

(***************************************************************************)
(* C5: in every state, for every File Record, the listing shows the        *)
(* record, the info route answers 200 for it and the download route gets   *)
(* past its checks for it exactly when the record is not tombstoned and    *)
(* (expiresAt is null or now < expiresAt): one rule at all three routes.   *)
(***************************************************************************)
C5_UniformAccessibility ==
    \A f \in FileIds :
        LET row == files[f]
            accessible == /\ ~row.is_deleted
                          /\ (row.expires_at = NullTime
                              \/ now < ParseDate(row.expires_at))
        IN  /\ ListVisible(row, now) <=> accessible
            /\ (InfoOutcome(SelectActiveFile(f), now) = Ok) <=> accessible
            /\ (DownloadOutcome(SelectActiveFile(f), disk, now).code = Pending)
                 <=> accessible

(***************************************************************************)
(* C7: when an upload that had its file staged is answered with an error,  *)
(* there is no File Record for it and no encrypted blob of it on disk.     *)
(***************************************************************************)
C7_UploadAllOrNothing ==
    \A s \in Slots :
        (/\ reqs[s].pc = "done" /\ reqs[s].op = "upload"
         /\ reqs[s].up.u # 0
         /\ reqs[s].resp # Ok)
        => /\ \A f \in FileIds :
                 files[f].filename # EncName(StagedName(reqs[s].up.u))
           /\ ~existsSync(disk, EncName(StagedName(reqs[s].up.u)))

(***************************************************************************)
(* C9: the SELECT of a sweep returns exactly the records with expiresAt    *)
(* not null, expiresAt < now and is_deleted = FALSE, and the steps of a    *)
(* sweep change is_deleted of no other record.                             *)
(***************************************************************************)
C9_SweepTombstonesExpired ==
    /\ [][\A s \in Slots :
            (reqs[s].pc = "cl_all" /\ reqs'[s].pc \in {"cl_upd", "done"})
            => LET rows == IF reqs'[s].pc = "done" THEN <<>> ELSE reqs'[s].row
               IN  {rows[i][1] : i \in 1..Len(rows)} =
                   {f \in FileIds : /\ files[f].expires_at # NullTime
                                    /\ ParseDate(files[f].expires_at) < now
                                    /\ ~files[f].is_deleted}]_vars
    /\ [][\A s \in Slots, f \in FileIds :
            (/\ reqs[s].op = "cleanup" /\ reqs'[s] # reqs[s]
             /\ files'[f].is_deleted # files[f].is_deleted)
            => /\ files[f].expires_at # NullTime
               /\ ParseDate(files[f].expires_at) < now]_vars

(***************************************************************************)
(* C11: decryptFile(encryptFile(P, K), K) gives P for every plaintext P    *)
(* and every key an upload generates; the record of an upload stores       *)
(* size = Len(P); and a download of a file uploaded with no expiry that    *)
(* is answered 200 carries exactly the bytes that were uploaded, the       *)
(* first such download leaving download_count = 1.                         *)
(***************************************************************************)
C11_RoundTrip ==
    /\ \A P \in Plaintexts, u \in 1..SingleUploads :
          decryptFile(encryptFile(P, generateKey(u)), generateKey(u)) =
             [ok |-> TRUE, data |-> P]
    /\ [](\A f \in FileIds : files[f].size = Len(uploadedBytes[f]))
    /\ [][\A s \in Slots :
            (/\ reqs[s].pc = "dl_upd"
             /\ reqs'[s].pc = "done"
             /\ reqs'[s].resp = Ok
             /\ files[reqs[s].arg].expires_at = NullTime)
            => /\ reqs'[s].body = uploadedBytes[reqs[s].arg]
               /\ files[reqs[s].arg].download_count = 0
                  => files'[reqs[s].arg].download_count = 1]_vars

\* the first download of a file uploaded with no expiry has been answered
\* with the two bytes that were uploaded
C11_Witness ==
    \E s \in Slots :
        /\ reqs[s].pc = "done" /\ reqs[s].op = "download" /\ reqs[s].resp = Ok
        /\ files[reqs[s].arg].expires_at = NullTime
        /\ files[reqs[s].arg].download_count = 1
        /\ reqs[s].body = <<104, 105>>
        /\ uploadedBytes[reqs[s].arg] = <<104, 105>>

(***************************************************************************)
(* C12: the record that POST /api/devices/register inserts has             *)
(* is_trusted = FALSE; the trustDevice step sets is_trusted of the named   *)
(* device to TRUE and the untrustDevice step sets it to FALSE; both leave  *)
(* the set of device ids, every other field of the named record, every     *)
(* other device record and the files table as they are.                    *)
(***************************************************************************)
C12_TrustTogglesOnlyTheFlag ==
    /\ [][\A s \in Slots :
            (reqs[s].pc = "reg_got" /\ reqs'[s].pc = "done" /\ reqs[s].row = <<>>)
            => /\ reqs[s].arg \in DOMAIN devices'
               /\ ~devices'[reqs[s].arg].is_trusted]_vars
    /\ [][\A s \in Slots :
            (reqs[s].pc \in {"trust_run", "untrust_run"} /\ reqs'[s].pc = "done")
            => /\ files' = files
               /\ DOMAIN devices' = DOMAIN devices
               /\ \A d \in DOMAIN devices :
                     IF d = reqs[s].arg
                     THEN devices'[d] =
                             [devices[d] EXCEPT
                                !.is_trusted = (reqs[s].pc = "trust_run")]
                     ELSE devices'[d] = devices[d]]_vars

\* a device that came in through registration, hence untrusted, has been
\* trusted by a request, while another device record and a file exist
C12_Witness ==
    \E s \in Slots :
        /\ reqs[s].pc = "done" /\ reqs[s].op = "trustDevice" /\ reqs[s].resp = Ok
        /\ reqs[s].arg \in DOMAIN devices
        /\ reqs[s].arg # SelfDeviceId
        /\ devices[reqs[s].arg].fingerprint = generateFingerprint("pk-phone")
        /\ devices[reqs[s].arg].is_trusted
        /\ files # <<>>

(***************************************************************************)
(* C13: addDiscoveredDevice for an id that is in the devices table, and    *)
(* registerDevice at a restart, write name, ip_address, fingerprint and    *)
(* last_seen of that one record, add no record and leave is_trusted and    *)
(* every other record as they are; and the is_trusted flag of a device     *)
(* record changes in no step other than a trustDevice or untrustDevice     *)
(* step that names the device.                                             *)
(***************************************************************************)
C13_SightingKeepsTrust ==
    /\ [][\A s \in Slots :
            (reqs[s].pc = "reg_got" /\ reqs'[s].pc = "done" /\ reqs[s].row # <<>>)
            => /\ DOMAIN devices' = DOMAIN devices
               /\ \A d \in DOMAIN devices :
                     IF d = reqs[s].arg
                     THEN devices'[d] =
                             [name |-> reqs[s].body[1],
                              ip_address |-> reqs[s].body[3],
                              fingerprint |-> generateFingerprint(reqs[s].body[2]),
                              last_seen |-> now,
                              is_trusted |-> devices[d].is_trusted]
                     ELSE devices'[d] = devices[d]]_vars
    /\ [][Restart
          => /\ DOMAIN devices' = DOMAIN devices
             /\ \A d \in DOMAIN devices :
                   IF d = SelfDeviceId
                   THEN devices'[d] =
                           [name |-> SelfDeviceName, ip_address |-> LocalIP,
                            fingerprint |-> generateFingerprint(SelfPublicKey),
                            last_seen |-> now,
                            is_trusted |-> devices[d].is_trusted]
                   ELSE devices'[d] = devices[d]]_vars
    /\ [][\A d \in DOMAIN devices \cap DOMAIN devices' :
            devices'[d].is_trusted # devices[d].is_trusted
            => \E s \in Slots :
                  /\ reqs[s].pc \in {"trust_run", "untrust_run"}
                  /\ reqs[s].arg = d
                  /\ reqs'[s].pc = "done"]_vars

\* a device that is trusted has been sighted again under another name and
\* address and is still trusted; the node's own record has been written by
\* a restart and is untrusted
C13_Witness ==
    \E s \in Slots :
        /\ reqs[s].pc = "done" /\ reqs[s].op = "serviceUp"
        /\ reqs[s].row # <<>>
        /\ devices[reqs[s].arg].is_trusted
        /\ devices[reqs[s].arg].name = "tablet"
        /\ ~devices[SelfDeviceId].is_trusted
        /\ devices[SelfDeviceId].last_seen > 0


\* C14: the devices table always holds the record of the node's own
\* deviceId (ids are the primary key, so it holds exactly one), and the
\* set of ids only loses an id to a completed deleteDevice for another id.
\* A deleteDevice request for the own id never answers 200 and leaves the
\* devices table unchanged; presented with a key that passes the gate it
\* is answered 400.
C14_SelfRecordStays ==
    /\ [](SelfDeviceId \in DOMAIN devices)
    /\ [][\A d \in DOMAIN devices \ DOMAIN devices' :
            /\ d # SelfDeviceId
            /\ \E s \in Slots : /\ reqs[s].pc = "dd_run"
                                /\ reqs[s].arg = d
                                /\ reqs'[s].pc = "done"]_vars
    /\ [][\A s \in Slots :
            (/\ reqs[s].pc # "done"
             /\ reqs'[s].pc = "done"
             /\ reqs'[s].op = "deleteDevice"
             /\ reqs'[s].arg = SelfDeviceId)
            => /\ devices' = devices
               /\ reqs'[s].resp \in {BadRequest, Unauthenticated, Forbidden}
               /\ (/\ reqs[s].pc = "auth_got"
                   /\ reqs[s].row # <<>>
                   /\ ~KeyExpired(reqs[s].row[1].expires_at, now)
                   /\ Includes(reqs[s].row[1].permissions, "write"))
                  => reqs'[s].resp = BadRequest]_vars

\* a deleteDevice request for the own id was answered 400 after another
\* device was registered and an upload was stored under the own id, and the
\* own record is there
C14_Witness ==
    /\ \E s \in Slots : /\ reqs[s].pc = "done"
                        /\ reqs[s].op = "deleteDevice"
                        /\ reqs[s].arg = SelfDeviceId
                        /\ reqs[s].resp = BadRequest
    /\ \E d \in DOMAIN devices : d # SelfDeviceId /\ ~devices[d].is_trusted
    /\ \E f \in DOMAIN files : files[f].device_id = SelfDeviceId
    /\ SelfDeviceId \in DOMAIN devices


\* C15: only trusted devices can share files: no step stores a File Record
\* for an upload whose source Device Record has is_trusted false at the
\* moment of the insert, so every File Record's source device, when it has
\* a record, was trusted when the file was stored.
C15_OnlyTrustedDevicesShare ==
    [][\A s \in Slots :
         (/\ reqs[s].pc = "up_ins"
          /\ reqs[s].up.source \in DOMAIN devices
          /\ ~devices[reqs[s].up.source].is_trusted)
         => files' = files]_vars


\* C16: no answer, whatever the route and the outcome, carries the
\* encryption_key of a File Record or the key_hash of an API key.
C16_KeysNeverLeave ==
    \A s \in Slots :
        reqs[s].pc = "done"
        => /\ \A f \in FileIds : files[f].encryption_key \notin reqs[s].sent
           /\ \A k \in 1..Len(apiKeys) :
                  apiKeys[k].key_hash \notin reqs[s].sent

\* the info route has answered 200 for a stored file from its `SELECT f.*`
\* row, which holds the encryption key, while a generated API key is stored
C16_Witness ==
    \E s \in Slots :
        /\ reqs[s].pc = "done"
        /\ reqs[s].op = "info"
        /\ reqs[s].resp = Ok
        /\ reqs[s].row[1].encryption_key = files[reqs[s].arg].encryption_key
        /\ reqs[s].row[1].encryption_key # NoKeyMaterial
        /\ reqs[s].arg \in reqs[s].sent
        /\ Len(apiKeys) > 1


\* an upload request without a file body, or whose expiresInMinutes is
\* given and is not a number
MalformedUpload(r) ==
    /\ r.op = "upload"
    /\ \/ r.up.u = 0
       \/ r.up.exp # "" /\ parseInt(r.up.exp) = <<>>

\* C17: a malformed upload (no file body, or a non-numeric
\* expiresInMinutes) is rejected before any mutation: no step of such a
\* request creates or changes a Device Record or stores a File Record, and
\* when it completes it is answered with an error and no ciphertext blob of
\* it is in storage.
C17_MalformedUploadMutatesNothing ==
    /\ [][\A s \in Slots :
            (MalformedUpload(reqs'[s]) /\ reqs[s].pc # "done")
            => devices' = devices /\ files' = files]_vars
    /\ [](\A s \in Slots :
            (reqs[s].pc = "done" /\ MalformedUpload(reqs[s]))
            => /\ reqs[s].resp # Ok
               /\ (reqs[s].up.u # 0
                    => ~existsSync(disk, EncName(StagedName(reqs[s].up.u)))))


\* C18: whenever an upload that staged a file completes (with success,
\* after a failure of the encryption, of the ciphertext write, of the
\* expiry computation or of the ledger insert), the staged plaintext copy
\* is no longer in storage.
C18_PlaintextGoneOnExit ==
    \A s \in Slots :
        (reqs[s].pc = "done" /\ reqs[s].op = "upload" /\ reqs[s].up.u # 0)
        => ~existsSync(disk, StagedName(reqs[s].up.u))

\* an upload with a valid expiry was answered 500 by the catch block while
\* the plaintext was still staged (encryption or ciphertext write failed):
\* neither the plaintext nor a ciphertext of it is in storage
C18_Witness ==
    \E s \in Slots :
        /\ reqs[s].pc = "done"
        /\ reqs[s].op = "upload"
        /\ reqs[s].up.u # 0
        /\ reqs[s].resp = ServerError
        /\ reqs[s].up.exp = "1"
        /\ ~existsSync(disk, EncName(StagedName(reqs[s].up.u)))
        /\ ~existsSync(disk, StagedName(reqs[s].up.u))


\* C19: a File Record whose expiry was not in the future when it was
\* stored (expiresInMinutes = 0) is never downloaded: every download of it
\* that reaches its checks, however soon after the upload, is answered 410
\* without the file bytes.
C19_ZeroExpiryNeverServed ==
    [][\A s \in Slots :
          (/\ reqs[s].pc = "dl_got"
           /\ reqs'[s] # reqs[s]
           /\ reqs[s].row # <<>>
           /\ reqs[s].row[1].expires_at # NullTime
           /\ ParseDate(reqs[s].row[1].expires_at)
                  <= ParseDate(reqs[s].row[1].upload_time))
          => /\ reqs'[s].pc = "done"
             /\ reqs'[s].resp = Expired
             /\ reqs'[s].body = <<>>]_vars


\* C20: admin is a superset capability: a request that presents a valid
\* (known, active, unexpired) key whose permission set contains admin is
\* never refused with 403 at a route that requires read or write, whether
\* or not read and write are in the set.
C20_AdminIsSuperset ==
    [][\A s \in Slots :
          (/\ reqs[s].pc = "auth_got"
           /\ reqs'[s] # reqs[s]
           /\ reqs[s].row # <<>>
           /\ ~KeyExpired(reqs[s].row[1].expires_at, now)
           /\ Includes(reqs[s].row[1].permissions, "admin"))
          => ~(reqs'[s].pc = "done" /\ reqs'[s].resp = Forbidden)]_vars


\* C21: the name of an existing Device Record changes only in a step of a
\* request that passed the gate with a key holding write, or when the node
\* registers its own identity at start-up (the sighting callback of the
\* optional discovery is left aside): no step of a request that presented
\* no key, a public upload included, changes a name.
C21_NameChangesNeedWriteKey ==
    [][\A d \in DOMAIN devices \cap DOMAIN devices' :
          devices'[d].name # devices[d].name
          => \/ Restart /\ d = SelfDeviceId
             \/ \E s \in Slots :
                   /\ reqs[s].op = "serviceUp"
                   /\ reqs'[s].pc = "done"
                   /\ reqs[s].pc # "done"
             \/ \E s \in Slots :
                   /\ reqs[s].pc \notin {"idle", "done"}
                   /\ reqs'[s].pc = "done"
                   /\ Includes(reqs[s].perms, "write")]_vars


\* C22: when an upload attributed to an existing Device Record has been
\* answered 200, that record's last_seen is not older than the upload_time
\* of the File Record the upload stored.
C22_UploadRefreshesLastSeen ==
    \A s \in Slots :
        (/\ reqs[s].pc = "done"
         /\ reqs[s].op = "upload"
         /\ reqs[s].resp = Ok
         /\ reqs[s].up.source \in DOMAIN devices)
        => devices[reqs[s].up.source].last_seen
              >= ParseDate(files[reqs[s].arg].upload_time)


\* the request's key is known, active, unexpired and holds write
ValidWriteKey(key, t) ==
    LET rows == SelectActiveKey(apiKeys, hashApiKey(key))
    IN  /\ key # NoKey
        /\ rows # <<>>
        /\ ~KeyExpired(rows[1].expires_at, t)
        /\ Includes(rows[1].permissions, "write")

\* C23: an admin operation of an authorised caller addressed to an id that
\* resolves to no active record (trustDevice, untrustDevice, deleteDevice
\* on an unknown device id; revokeApiKey on an unknown or revoked key id;
\* deleteFile on an unknown or tombstoned file id) is answered 404 and
\* changes no table and no blob.
C23_UnknownIdIsNotFound ==
    [][\A s \in Slots :
          (/\ reqs'[s].pc = "done"
           /\ reqs[s].pc # "done"
           /\ \/ /\ reqs[s].pc \in {"trust_run", "untrust_run", "dd_run"}
                 /\ reqs[s].arg \notin DOMAIN devices
              \/ /\ reqs[s].pc = "df_get"
                 /\ SelectActiveFile(reqs[s].arg) = <<>>
              \/ /\ reqs[s].pc = "idle"
                 /\ reqs'[s].op = "revokeApiKey"
                 /\ ValidWriteKey(reqs'[s].key, now)
                 /\ ~(/\ reqs'[s].arg \in 1..Len(apiKeys)
                      /\ apiKeys[reqs'[s].arg].is_active))
          => /\ reqs'[s].resp = NotFound
             /\ tables' = tables
             /\ disk' = disk]_vars


\* C24: in every state every File Record that is not tombstoned has its
\* ciphertext blob in storage under its stored name: the record is inserted
\* after the blob is written, and a blob is removed only after its record
\* is tombstoned.
C24_ActiveRecordHasBlob ==
    \A f \in FileIds :
        ~files[f].is_deleted => existsSync(disk, files[f].filename)

\* a deleteFile has tombstoned a record and has not removed the blob yet,
\* while another request is in flight
C24_Witness ==
    \E s \in Slots, q \in Slots :
        /\ s # q
        /\ reqs[s].pc = "df_marked"
        /\ files[reqs[s].arg].is_deleted
        /\ existsSync(disk, files[reqs[s].arg].filename)
        /\ reqs[q].pc \in {"up_ins", "cl_upd", "df_upd"}


\* C25: anonymous device provisioning is keyed by (name, address): in every
\* state no two Device Records share name and address, and every File
\* Record of an upload that named no device references the one record
\* with the upload's derived name and address.
C25_OneAnonymousDevicePerPair ==
    /\ \A d \in DOMAIN devices, e \in DOMAIN devices :
          (devices[d].name = devices[e].name
           /\ devices[d].ip_address = devices[e].ip_address) => d = e
    /\ \A s \in Slots :
          (/\ reqs[s].pc = "done"
           /\ reqs[s].op = "upload"
           /\ reqs[s].resp = Ok
           /\ reqs[s].up.deviceId = 0)
          => /\ files[reqs[s].arg].device_id \in DOMAIN devices
             /\ files[reqs[s].arg].device_id =
                   SelectDeviceByNameIp(
                      AnonymousDeviceName(reqs[s].up.deviceName), ClientIP)[1]
             /\ devices[files[reqs[s].arg].device_id].is_trusted


(***************************************************************************)
(* C26: bootstrap issues a key only when no active key record exists: a    *)
(* bootstrap request that arrives while a key is active is answered 400    *)
(* and inserts nothing, and of the bootstrap requests in flight together   *)
(* on a table without active keys at most one succeeds, so that at any     *)
(* time at most one active key created by bootstrap exists.                *)
(***************************************************************************)
BootstrapKeys(keys) ==
    {k \in 1..Len(keys) :
        keys[k].is_active /\ keys[k].permissions = PermsBootstrap}

C26_AtMostOneBootstrapKey ==
    Cardinality(BootstrapKeys(apiKeys)) <= 1


(***************************************************************************)
(* C27: key generation does not escalate privilege: the permission set of  *)
(* every key that a generateApiKey request inserts is a subset of the      *)
(* permission set of the key that authenticated the request, so a caller   *)
(* that holds read and write only never brings a key with admin into       *)
(* existence.                                                              *)
(***************************************************************************)
C27_GeneratedKeyWithinCallerPerms ==
    [][\A s \in Slots :
          (reqs[s].op = "generateApiKey" /\ reqs[s].pc = "gk_ins"
             /\ Len(apiKeys') = Len(apiKeys) + 1)
              => Range(apiKeys'[Len(apiKeys')].permissions)
                    \subseteq Range(reqs[s].perms)]_vars


\* the secret a request presents belongs to an active, unexpired key
PresentsValidKey(key, t) ==
    LET rows == SelectActiveKey(apiKeys, hashApiKey(key))
    IN  /\ key # NoKey
        /\ rows # <<>>
        /\ ~KeyExpired(rows[1].expires_at, t)

\* some key is active and unexpired
SomeUsableKey(t) ==
    \E k \in 1..Len(apiKeys) :
        apiKeys[k].is_active /\ ~KeyExpired(apiKeys[k].expires_at, t)

(***************************************************************************)
(* C28: while an active, unexpired key exists, requests that present no    *)
(* valid key (bootstrap, validate, list-keys, revoke, ...) neither issue   *)
(* a new key nor change is_active of an existing key: every step that      *)
(* adds a key row or changes an is_active belongs to a request that passed *)
(* the gate or presents the secret of an active, unexpired key.            *)
(***************************************************************************)
C28_NoKeyChangeWithoutValidKey ==
    [][(/\ SomeUsableKey(now)
        /\ \/ Len(apiKeys') # Len(apiKeys)
           \/ \E k \in 1..Len(apiKeys) :
                 apiKeys'[k].is_active # apiKeys[k].is_active)
          => \E s \in Slots :
                /\ reqs'[s] # reqs[s]
                /\ \/ reqs[s].perms # <<>>
                   \/ PresentsValidKey(reqs'[s].key, now)]_vars


(***************************************************************************)
(* C29: referential integrity of ownership: in every reachable state the   *)
(* device_id of each file record and of each active key record is the id   *)
(* of an existing device record; neither an upload that names a deviceId   *)
(* nor deleteDevice of a device that owns files or keys leaves a dangling  *)
(* reference.                                                              *)
(***************************************************************************)
C29_OwnersExist ==
    /\ \A f \in 1..Len(files) : files[f].device_id \in DOMAIN devices
    /\ \A k \in 1..Len(apiKeys) :
          apiKeys[k].is_active => apiKeys[k].device_id \in DOMAIN devices


(***************************************************************************)
(* C30: a tombstoned file record is frozen: once is_deleted is set its     *)
(* download_count never changes again, also when a download that read the  *)
(* record before the tombstone runs on after the deleteFile or cleanup     *)
(* that set it; and download_count never decreases.                        *)
(***************************************************************************)
C30_TombstonedCountFrozen ==
    [][\A f \in 1..Len(files) :
          /\ files'[f].download_count >= files[f].download_count
          /\ files[f].is_deleted
                => files'[f].download_count = files[f].download_count]_vars

====
